---- MODULE Spec2Model ----
(***************************************************************************)
(* Model of predict.c (oracle/memoptimizer): the least-squares trend       *)
(* estimator lsq_fit() and the decision procedure predict().               *)
(*                                                                         *)
(* Slots of the circular buffers are numbered 0..LSQ_LOOKBACK-1 as in the  *)
(* C arrays.  C integer division truncates toward zero (TDiv).  All values *)
(* explored are far below 2^31, so no accumulator wraps; the unsigned      *)
(* comparison of predict()'s time_taken/time_to_catchup is modelled by     *)
(* UGe on the signed values that are converted.                            *)
(***************************************************************************)
EXTENDS Integers, Sequences, FiniteSets, TLC

VARIABLES
    LSQ_LOOKBACK,     \* window length W, a build-time constant: fixed by Init
    lsq,              \* lsq[order]: struct lsq_struct (x, y, next, ready)
    supplied,         \* supplied[order]: the samples handed to lsq_fit so far
                      \*   (history; kept where a property or a bound reads it)
    fit,              \* fit[order]: outcome of the last lsq_fit (ret, m, c)
    reclaim_rate,     \* global configured rate, read by predict
    compaction_rate,  \* global configured rate, read by predict
    call,             \* the last predict call: its inputs, reads and result
    shift,            \* constant k added to run 1's times (offset runs only)
    twin              \* the same call made with another verbosity and node id

vars == <<LSQ_LOOKBACK, lsq, supplied, fit, reclaim_rate, compaction_rate,
          call, shift, twin>>

----------------------------------------------------------------------------
(* Bounds of the exploration *)

MAX_ORDER == 2
MaxWindow == 3
MaxObserve == 4
MaxRacingCalls == 2

\* the shortest window that can yield a line ("for any W >= 2")
MinWindow == 2

Orders == 0 .. (MAX_ORDER - 1)
HigherOrders == 1 .. (MAX_ORDER - 1)
Windows == MinWindow .. MaxWindow

\* samples offered to a single estimator (free pages, milliseconds)
FitValues == {80, 90, 100}
FitTimes == {0, 10, 20}
Shifts == {5, 10}

\* what predict is offered: order 0 counts all free pages, the higher orders
\* fewer; one elapsed-time reading per call, shared by the orders
PagesOf(order) == IF order = 0 THEN {1900, 1902} ELSE {1, 3}
PredictTimes == {0, 1}
Wmarks == {1899, 1900}
ReclaimRates == {0, 1, 2}
CompactionRates == {0, 1, 2}
\* the global verbose (the tests are > 1 and > 2) and the node id
Verbosities == {0, 2, 3}
Nids == {0, 1}
\* two calls that differ in both
TwinSettings ==
    {s \in (Verbosities \X Nids) \X (Verbosities \X Nids) :
        s[1][1] < s[2][1] /\ s[1][2] < s[2][2]}
Clocks ==
    {[tv_sec |-> 0, tv_nsec |-> 924000],
     [tv_sec |-> 1, tv_nsec |-> 0]}

FragVecs ==
    {[o \in Orders |-> [free_pages |-> f[o], msecs |-> t]] :
        f \in {g \in [Orders -> {1, 3, 1900, 1902}] :
                  \A o \in Orders : g[o] \in PagesOf(o)},
        t \in PredictTimes}

----------------------------------------------------------------------------
(* C arithmetic *)

Abs(v) == IF v < 0 THEN -v ELSE v

\* a / b in C: the quotient truncated toward zero (b # 0)
TDiv(a, b) ==
    IF (a >= 0) = (b > 0)
    THEN Abs(a) \div Abs(b)
    ELSE -(Abs(a) \div Abs(b))

\* a >= b after both are converted to unsigned long
UGe(a, b) ==
    IF (a >= 0) = (b >= 0) THEN a >= b ELSE a < 0

RECURSIVE SumOver(_, _)
SumOver(f, n) == IF n = 0 THEN 0 ELSE f[n - 1] + SumOver(f, n - 1)

----------------------------------------------------------------------------
(* struct lsq_struct and lsq_fit *)

\* a zero-initialised estimator: empty buffer, cursor 0, not ready
lsq_empty(W) ==
    [x |-> [i \in 0 .. (W - 1) |-> 0],
     y |-> [i \in 0 .. (W - 1) |-> 0],
     next |-> 0,
     ready |-> FALSE]

NoFit == [ret |-> -1, m |-> 0, c |-> 0]

\* lsq_insert with a ready flag that follows the cursor instead of latching
\* (C3 tells the two apart)
lsq_insert_reset(l, new_y, new_x, W) ==
    [x |-> [l.x EXCEPT ![l.next] = new_x],
     y |-> [l.y EXCEPT ![l.next] = new_y],
     next |-> IF l.next + 1 = W THEN 0 ELSE l.next + 1,
     ready |-> (l.next + 1 = W)]

\* lines 46-58: store the sample at the cursor, advance and wrap the cursor
lsq_insert(l, new_y, new_x, W) ==
    [x |-> [l.x EXCEPT ![l.next] = new_x],
     y |-> [l.y EXCEPT ![l.next] = new_y],
     next |-> IF l.next + 1 = W THEN 0 ELSE l.next + 1,
     ready |-> IF l.next + 1 = W THEN TRUE ELSE l.ready]

\* lines 78-80: translate the time axis by the entry under the cursor
lsq_translate(l, W) ==
    [l EXCEPT !.x = [i \in 0 .. (W - 1) |-> l.x[i] - l.x[l.next]]]

\* lines 86-92, over the translated buffer t
sigma_x(t, W) == SumOver(t.x, W)
sigma_y(t, W) == SumOver(t.y, W)
sigma_xy(t, W) == SumOver([i \in 0 .. (W - 1) |-> t.x[i] * t.y[i]], W)
sigma_xx(t, W) == SumOver([i \in 0 .. (W - 1) |-> t.x[i] * t.x[i]], W)

\* a divisor that is not zero on a window of identical times (C13 tells the
\* two apart)
slope_divisor_off(sxx, sx, W) == W * sxx - sx * sx + 1

\* line 97
slope_divisor(sxx, sx, W) == W * sxx - sx * sx

\* line 101: the slope, scaled by 100
lsq_slope(sxy, sx, sy, divisor, W) ==
    TDiv((W * sxy - sx * sy) * 100, divisor)

\* line 102: computed from the scaled slope
lsq_intercept(sy, m, sx, W) == TDiv(sy - m * sx, W)

\* lines 107-108: add x_offset back to every entry
lsq_restore(t, x_offset, W) ==
    [t EXCEPT !.x = [i \in 0 .. (W - 1) |-> t.x[i] + x_offset]]

\* lsq_fit: the estimator it leaves behind and what it returns.  *m and *c are
\* not assigned when -1 is returned; they are shown as 0 and never read.
lsq_fit(l, new_y, new_x, W) ==
    LET ins == lsq_insert(l, new_y, new_x, W)
        x_offset == ins.x[ins.next]
        t == lsq_translate(ins, W)
        sx == sigma_x(t, W)
        sy == sigma_y(t, W)
        sxy == sigma_xy(t, W)
        sxx == sigma_xx(t, W)
        divisor == slope_divisor(sxx, sx, W)
        m == lsq_slope(sxy, sx, sy, divisor, W)
    IN  IF ~ins.ready
        THEN [lsq |-> ins, ret |-> -1, m |-> 0, c |-> 0]
        ELSE IF divisor = 0
        THEN [lsq |-> t, ret |-> -1, m |-> 0, c |-> 0]
        ELSE [lsq |-> lsq_restore(t, x_offset, W), ret |-> 0,
              m |-> m, c |-> lsq_intercept(sy, m, sx, W)]

Outcome(r) == [ret |-> r.ret, m |-> r.m, c |-> r.c]

----------------------------------------------------------------------------
(* predict *)

MEMPREDICT_RECLAIM == "RECLAIM"
MEMPREDICT_COMPACT == "COMPACT"
MEMPREDICT_LOWER_WMARKS == "LOWER_WMARKS"

\* What each read of the two global rates returned during one call, in program
\* order: reclaim_rate at line 212 and line 235, then compaction_rate at line
\* 264 and line 296 of every iteration of the scan.
ReadsOf(rr_check, rr_div, cr_check, cr_div) ==
    [rr_check |-> rr_check, rr_div |-> rr_div,
     cr_check |-> cr_check, cr_div |-> cr_div]

\* nothing writes the globals during the call: every read returns the same
SteadyReads(rr, cr) ==
    ReadsOf(rr, rr, [o \in HigherOrders |-> cr], [o \in HigherOrders |-> cr])

Decision(flags, at) ==
    [retval |-> flags, fault |-> FALSE, returned0 |-> FALSE, at |-> at]

\* "return 0" at line 213 or line 265
Returned0(at) ==
    [retval |-> {}, fault |-> FALSE, returned0 |-> TRUE, at |-> at]

\* an integer division by zero: the call does not return
Fault(at) ==
    [retval |-> {}, fault |-> TRUE, returned0 |-> FALSE, at |-> at]

\* the order-0 branch with a zero reclaim rate leaving the flags empty and
\* going on to the scan instead of returning (C14 tells the two apart)
order0_branch_goes_on(m0, free_pages, high_wmark, rd) ==
    IF m0 >= 0
    THEN Decision({MEMPREDICT_LOWER_WMARKS}, 0)
    ELSE IF rd.rr_check = 0
    THEN Decision({}, 0)
    ELSE IF free_pages <= high_wmark
    THEN Decision({MEMPREDICT_RECLAIM}, 0)
    ELSE IF rd.rr_div = 0
    THEN Fault(0)
    ELSE LET time_taken == TDiv(free_pages - high_wmark, Abs(m0))
             time_to_catchup == TDiv(free_pages - high_wmark, rd.rr_div)
         IN  IF time_taken >= time_to_catchup
             THEN Decision({MEMPREDICT_RECLAIM}, 0)
             ELSE Decision({}, 0)

\* the order-0 branch with the watermark test made on a rising trend too
\* (C15 tells the two apart)
order0_branch_breach_first(m0, free_pages, high_wmark, rd) ==
    IF m0 >= 0
    THEN IF free_pages <= high_wmark
         THEN Decision({MEMPREDICT_LOWER_WMARKS, MEMPREDICT_RECLAIM}, 0)
         ELSE Decision({MEMPREDICT_LOWER_WMARKS}, 0)
    ELSE IF rd.rr_check = 0
    THEN Returned0(0)
    ELSE IF free_pages <= high_wmark
    THEN Decision({MEMPREDICT_RECLAIM}, 0)
    ELSE IF rd.rr_div = 0
    THEN Fault(0)
    ELSE LET time_taken == TDiv(free_pages - high_wmark, Abs(m0))
             time_to_catchup == TDiv(free_pages - high_wmark, rd.rr_div)
         IN  IF time_taken >= time_to_catchup
             THEN Decision({MEMPREDICT_RECLAIM}, 0)
             ELSE Decision({}, 0)

\* the order-0 branch with line 242 asking for a strictly longer time
\* (C19 tells the two apart)
order0_branch_strict(m0, free_pages, high_wmark, rd) ==
    IF m0 >= 0
    THEN Decision({MEMPREDICT_LOWER_WMARKS}, 0)
    ELSE IF rd.rr_check = 0
    THEN Returned0(0)
    ELSE IF free_pages <= high_wmark
    THEN Decision({MEMPREDICT_RECLAIM}, 0)
    ELSE IF rd.rr_div = 0
    THEN Fault(0)
    ELSE LET time_taken == TDiv(free_pages - high_wmark, Abs(m0))
             time_to_catchup == TDiv(free_pages - high_wmark, rd.rr_div)
         IN  IF time_taken > time_to_catchup
             THEN Decision({MEMPREDICT_RECLAIM}, 0)
             ELSE Decision({}, 0)

\* lines 197-251: the order-0 branch
order0_branch(m0, free_pages, high_wmark, rd) ==
    IF m0 >= 0
    THEN Decision({MEMPREDICT_LOWER_WMARKS}, 0)
    ELSE IF rd.rr_check = 0
    THEN Returned0(0)
    ELSE IF free_pages <= high_wmark
    THEN Decision({MEMPREDICT_RECLAIM}, 0)
    ELSE IF rd.rr_div = 0
    THEN Fault(0)
    ELSE LET time_taken == TDiv(free_pages - high_wmark, Abs(m0))
             time_to_catchup == TDiv(free_pages - high_wmark, rd.rr_div)
         IN  IF time_taken >= time_to_catchup
             THEN Decision({MEMPREDICT_RECLAIM}, 0)
             ELSE Decision({}, 0)

\* lines 271-274
x_cross(m, c, order) == TDiv((c[0] - c[order]) * 100, m[order] - m[0])
y_cross(m, c, order) ==
    TDiv(m[order] * c[0] - m[0] * c[order], m[order] - m[0])

\* line 287: the value x_cross is compared with
clock_value(tspec) == tspec.tv_sec * 1000 + tspec.tv_nsec \div 1000

\* lines 286-287
crossing_due(xc, tspec) == xc < 0 \/ xc < clock_value(tspec)

\* lines 294-295
time_to_cross(xc, tspec) ==
    xc - tspec.tv_sec * 1000 + tspec.tv_nsec \div 1000

\* line 296; the rate divides as a signed long (it is printed with %ld)
time_to_compact(m, c, order, rate) == TDiv(c[0] - y_cross(m, c, order), rate)

\* the scan with a zero compaction rate ending it but keeping the flags of the
\* order-0 branch (C4 tells the two apart)
RECURSIVE compaction_scan_keep(_, _, _, _, _, _)
compaction_scan_keep(order, m, c, retval, rd, tspec) ==
    IF order <= 0
    THEN Decision(retval, 0)
    ELSE IF m[0] = m[order]
    THEN compaction_scan_keep(order - 1, m, c, retval, rd, tspec)
    ELSE IF rd.cr_check[order] = 0
    THEN Decision(retval, order)
    ELSE IF crossing_due(x_cross(m, c, order), tspec)
    THEN Decision(retval \cup {MEMPREDICT_COMPACT}, order)
    ELSE IF rd.cr_div[order] = 0
    THEN Fault(order)
    ELSE IF UGe(time_to_cross(x_cross(m, c, order), tspec),
                time_to_compact(m, c, order, rd.cr_div[order]))
    THEN Decision(retval \cup {MEMPREDICT_COMPACT}, order)
    ELSE compaction_scan_keep(order - 1, m, c, retval, rd, tspec)

\* the scan without lines 286-292: a crossing that is due is judged by the
\* catch-up test like any other (C7 tells the two apart)
RECURSIVE compaction_scan_nodue(_, _, _, _, _, _)
compaction_scan_nodue(order, m, c, retval, rd, tspec) ==
    IF order <= 0
    THEN Decision(retval, 0)
    ELSE IF m[0] = m[order]
    THEN compaction_scan_nodue(order - 1, m, c, retval, rd, tspec)
    ELSE IF rd.cr_check[order] = 0
    THEN Returned0(order)
    ELSE IF rd.cr_div[order] = 0
    THEN Fault(order)
    ELSE IF UGe(time_to_cross(x_cross(m, c, order), tspec),
                time_to_compact(m, c, order, rd.cr_div[order]))
    THEN Decision(retval \cup {MEMPREDICT_COMPACT}, order)
    ELSE compaction_scan_nodue(order - 1, m, c, retval, rd, tspec)

\* the scan with lines 261-262 taking a parallel order for one that is out of
\* pages instead of skipping it (C12 tells the two apart)
RECURSIVE compaction_scan_noskip(_, _, _, _, _, _)
compaction_scan_noskip(order, m, c, retval, rd, tspec) ==
    IF order <= 0
    THEN Decision(retval, 0)
    ELSE IF m[0] = m[order]
    THEN Decision(retval \cup {MEMPREDICT_COMPACT}, order)
    ELSE IF rd.cr_check[order] = 0
    THEN Returned0(order)
    ELSE IF crossing_due(x_cross(m, c, order), tspec)
    THEN Decision(retval \cup {MEMPREDICT_COMPACT}, order)
    ELSE IF rd.cr_div[order] = 0
    THEN Fault(order)
    ELSE IF UGe(time_to_cross(x_cross(m, c, order), tspec),
                time_to_compact(m, c, order, rd.cr_div[order]))
    THEN Decision(retval \cup {MEMPREDICT_COMPACT}, order)
    ELSE compaction_scan_noskip(order - 1, m, c, retval, rd, tspec)

\* lines 257-307: the scan from order down to 1; one clock reading stands
\* for the readings of all iterations of a call
RECURSIVE compaction_scan(_, _, _, _, _, _)
compaction_scan(order, m, c, retval, rd, tspec) ==
    IF order <= 0
    THEN Decision(retval, 0)
    ELSE IF m[0] = m[order]
    THEN compaction_scan(order - 1, m, c, retval, rd, tspec)
    ELSE IF rd.cr_check[order] = 0
    THEN Returned0(order)
    ELSE IF crossing_due(x_cross(m, c, order), tspec)
    THEN Decision(retval \cup {MEMPREDICT_COMPACT}, order)
    ELSE IF rd.cr_div[order] = 0
    THEN Fault(order)
    ELSE IF UGe(time_to_cross(x_cross(m, c, order), tspec),
                time_to_compact(m, c, order, rd.cr_div[order]))
    THEN Decision(retval \cup {MEMPREDICT_COMPACT}, order)
    ELSE compaction_scan(order - 1, m, c, retval, rd, tspec)

\* lines 197-309: the decision once every order has a line
predict_decide(m, c, free_pages, high_wmark, rd, tspec) ==
    LET b == order0_branch(m[0], free_pages, high_wmark, rd)
    IN  IF b.returned0 \/ b.fault
        THEN b
        ELSE compaction_scan(MAX_ORDER - 1, m, c, b.retval, rd, tspec)

\* the loop of lines 173-178 left at the first order that yields no line, the
\* orders above it not fed (C20 tells the two apart)
RECURSIVE fit_all_break(_, _, _, _)
fit_all_break(order, l, frag_vec, W) ==
    LET r == lsq_fit(l[order], frag_vec[order].free_pages,
                     frag_vec[order].msecs, W)
    IN  IF order = MAX_ORDER - 1
        THEN (order :> r)
        ELSE IF r.ret = -1
        THEN (order :> r)
             @@ [o \in (order + 1) .. (MAX_ORDER - 1) |->
                   [lsq |-> l[o], ret |-> -1, m |-> 0, c |-> 0]]
        ELSE (order :> r) @@ fit_all_break(order + 1, l, frag_vec, W)

\* lines 173-178: the loop, from order up to MAX_ORDER-1; every order is
\* fitted, whatever the earlier ones returned
RECURSIVE fit_all(_, _, _, _)
fit_all(order, l, frag_vec, W) ==
    LET r == lsq_fit(l[order], frag_vec[order].free_pages,
                     frag_vec[order].msecs, W)
    IN  IF order = MAX_ORDER - 1
        THEN (order :> r)
        ELSE (order :> r) @@ fit_all(order + 1, l, frag_vec, W)

\* predict without lines 180-181: the decision is taken on whatever m and c
\* hold, ready or not (C11 tells the two apart)
predict_partial(l, frag_vec, high_wmark, rd, tspec, W) ==
    LET r == fit_all(0, l, frag_vec, W)
        is_ready == \A o \in Orders : r[o].ret # -1
        m == [o \in Orders |-> r[o].m]
        c == [o \in Orders |-> r[o].c]
    IN  [lsq |-> [o \in Orders |-> r[o].lsq],
         fit |-> [o \in Orders |-> Outcome(r[o])],
         is_ready |-> is_ready,
         d |-> predict_decide(m, c, frag_vec[0].free_pages, high_wmark,
                              rd, tspec)]

\* predict: the estimators it leaves behind, the fits and the decision
predict(l, frag_vec, high_wmark, rd, tspec, W) ==
    LET r == fit_all(0, l, frag_vec, W)
        is_ready == \A o \in Orders : r[o].ret # -1
        m == [o \in Orders |-> r[o].m]
        c == [o \in Orders |-> r[o].c]
    IN  [lsq |-> [o \in Orders |-> r[o].lsq],
         fit |-> [o \in Orders |-> Outcome(r[o])],
         is_ready |-> is_ready,
         d |-> IF is_ready
               THEN predict_decide(m, c, frag_vec[0].free_pages, high_wmark,
                                   rd, tspec)
               ELSE Decision({}, 0)]

\* the log_info statements of the order-0 branch that run, by first line:
\* line 223 under "verbose > 1" (line 222), line 244 under "verbose > 2"
\* (line 243); each with the node id it prints
order0_log(verbose, nid, m0, free_pages, high_wmark, rd) ==
    IF m0 >= 0 \/ rd.rr_check = 0
    THEN {}
    ELSE IF free_pages <= high_wmark
    THEN IF verbose > 1 THEN {<<223, nid>>} ELSE {}
    ELSE IF rd.rr_div = 0
    THEN {}
    ELSE IF /\ TDiv(free_pages - high_wmark, Abs(m0))
                 >= TDiv(free_pages - high_wmark, rd.rr_div)
            /\ verbose > 2
         THEN {<<244, nid>>}
         ELSE {}

\* the log_info statements of the scan that run, for a scan that came to the
\* decision d: line 289 under "verbose > 1" (line 288) when the crossing was
\* due, line 299 under "verbose > 2" (line 298) when the catch-up test fired
scan_log(verbose, nid, d, m, c, tspec) ==
    IF d.at = 0 \/ MEMPREDICT_COMPACT \notin d.retval
    THEN {}
    ELSE IF crossing_due(x_cross(m, c, d.at), tspec)
    THEN IF verbose > 1 THEN {<<289, nid>>} ELSE {}
    ELSE IF verbose > 2 THEN {<<299, nid>>} ELSE {}

\* predict with the verbosity level that gates its decision as well as its
\* logging: COMPACT is set only when line 288's test lets the log through
\* (C16 tells the two apart)
predict_verbose_gated(l, frag_vec, high_wmark, rd, tspec, W, verbose, nid) ==
    LET p == predict(l, frag_vec, high_wmark, rd, tspec, W)
    IN  [lsq |-> p.lsq, fit |-> p.fit, is_ready |-> p.is_ready,
         d |-> IF verbose > 1
               THEN p.d
               ELSE [p.d EXCEPT !.retval = @ \ {MEMPREDICT_COMPACT}],
         log |-> {}]

\* predict with the global verbose and the parameter nid: both occur only in
\* the log_info statements (lines 222-225, 243-247, 288-289, 298-302)
predict_verbose(l, frag_vec, high_wmark, rd, tspec, W, verbose, nid) ==
    LET p == predict(l, frag_vec, high_wmark, rd, tspec, W)
        m == [o \in Orders |-> p.fit[o].m]
        c == [o \in Orders |-> p.fit[o].c]
    IN  [lsq |-> p.lsq, fit |-> p.fit, is_ready |-> p.is_ready, d |-> p.d,
         log |-> IF ~p.is_ready
                 THEN {}
                 ELSE order0_log(verbose, nid, m[0], frag_vec[0].free_pages,
                                 high_wmark, rd)
                      \cup scan_log(verbose, nid, p.d, m, c, tspec)]

NoClock == [tv_sec |-> 0, tv_nsec |-> 0]

NoCall ==
    [kind |-> "none", free_pages |-> 0, high_wmark |-> 0, tspec |-> NoClock,
     reads |-> SteadyReads(0, 0), is_ready |-> FALSE,
     retval |-> {}, fault |-> FALSE, returned0 |-> FALSE, at |-> 0]

\* no call has been made twice yet
NoTwin ==
    [kind |-> "none", verbose |-> 0, nid |-> 0, log |-> {},
     verbose2 |-> 0, nid2 |-> 0, log2 |-> {},
     lsq2 |-> << >>, fit2 |-> << >>, retval2 |-> {}, fault2 |-> FALSE]

\* The last call as the properties see it.  A call that returns at line 181
\* has read neither the rates nor the clock: none is recorded for it.
CallRecord(frag_vec, high_wmark, rd, tspec, p) ==
    [kind |-> "predict", free_pages |-> frag_vec[0].free_pages,
     high_wmark |-> high_wmark,
     tspec |-> IF p.is_ready THEN tspec ELSE NoClock,
     reads |-> IF p.is_ready THEN rd ELSE SteadyReads(0, 0),
     is_ready |-> p.is_ready, retval |-> p.d.retval, fault |-> p.d.fault,
     returned0 |-> p.d.returned0, at |-> p.d.at]

----------------------------------------------------------------------------
(* The controller: predict called again and again on one set of estimators, *)
(* the two rates configured before the first call and left alone           *)

Init ==
    /\ LSQ_LOOKBACK = MinWindow
    /\ lsq = [o \in Orders |-> lsq_empty(LSQ_LOOKBACK)]
    /\ supplied = [o \in Orders |-> << >>]
    /\ fit = [o \in Orders |-> NoFit]
    /\ reclaim_rate \in ReclaimRates
    /\ compaction_rate \in CompactionRates
    /\ call = NoCall
    /\ shift = 0
    /\ twin = NoTwin

Predict(frag_vec, high_wmark, tspec) ==
    \E rd \in {SteadyReads(reclaim_rate, compaction_rate)} :
    \E p \in {predict(lsq, frag_vec, high_wmark, rd, tspec, LSQ_LOOKBACK)} :
        /\ lsq' = p.lsq
        /\ fit' = p.fit
        /\ call' = CallRecord(frag_vec, high_wmark, rd, tspec, p)
        /\ UNCHANGED <<LSQ_LOOKBACK, supplied, reclaim_rate, compaction_rate,
                       shift, twin>>

Next ==
    \E frag_vec \in FragVecs, high_wmark \in Wmarks, tspec \in Clocks :
        Predict(frag_vec, high_wmark, tspec)

Spec == Init /\ [][Next]_vars

----------------------------------------------------------------------------
(* The same controller with the surrounding system storing new rates while *)
(* a call runs: the store lands just before the call's at-th read of a     *)
(* rate, so the earlier reads returned the old pair and that read and the  *)
(* later ones the new pair (at = 1: before the call, at = NumReads + 1:    *)
(* after it).  Reads in program order: reclaim_rate at line 212 and line   *)
(* 235, then compaction_rate at lines 264 and 296 for MAX_ORDER-1 down.    *)

NumReads == 2 + 2 * (MAX_ORDER - 1)

PosCheck(order) == 3 + 2 * (MAX_ORDER - 1 - order)
PosDiv(order) == 4 + 2 * (MAX_ORDER - 1 - order)

RacingReads(old_rr, old_cr, new_rr, new_cr, at) ==
    ReadsOf(IF 1 >= at THEN new_rr ELSE old_rr,
            IF 2 >= at THEN new_rr ELSE old_rr,
            [o \in HigherOrders |-> IF PosCheck(o) >= at THEN new_cr ELSE old_cr],
            [o \in HigherOrders |-> IF PosDiv(o) >= at THEN new_cr ELSE old_cr])

PredictRacing(frag_vec, high_wmark, tspec, new_rr, new_cr, at) ==
    /\ Len(supplied[0]) < MaxRacingCalls
    /\ \E rd \in {RacingReads(reclaim_rate, compaction_rate,
                             new_rr, new_cr, at)} :
       \E p \in {predict(lsq, frag_vec, high_wmark, rd, tspec, LSQ_LOOKBACK)} :
           /\ lsq' = p.lsq
           /\ fit' = p.fit
           /\ call' = CallRecord(frag_vec, high_wmark, rd, tspec, p)
    /\ supplied' = [o \in Orders |->
                      Append(supplied[o], [x |-> frag_vec[o].msecs,
                                           y |-> frag_vec[o].free_pages])]
    /\ reclaim_rate' = new_rr
    /\ compaction_rate' = new_cr
    /\ UNCHANGED <<LSQ_LOOKBACK, shift, twin>>

NextRace ==
    \E frag_vec \in FragVecs, high_wmark \in Wmarks, tspec \in Clocks,
       new_rr \in ReclaimRates, new_cr \in CompactionRates,
       at \in 1 .. (NumReads + 1) :
        PredictRacing(frag_vec, high_wmark, tspec, new_rr, new_cr, at)

SpecRace == Init /\ [][NextRace]_vars

----------------------------------------------------------------------------
(* The controller making every call twice from the same estimators, once   *)
(* with verbosity and node id (verbose, nid) and once with (verbose2, nid2) *)
(* the first call's outcome is kept, the second's is recorded in twin      *)

\* A call that returns at line 181 reaches no statement that reads verbose
\* or nid: the settings are not recorded for it.
TwinRecord(verbose, nid, verbose2, nid2, p, q) ==
    [kind |-> "twin",
     verbose |-> IF p.is_ready THEN verbose ELSE 0,
     nid |-> IF p.is_ready THEN nid ELSE 0,
     log |-> p.log,
     verbose2 |-> IF p.is_ready THEN verbose2 ELSE 0,
     nid2 |-> IF p.is_ready THEN nid2 ELSE 0,
     log2 |-> q.log, lsq2 |-> q.lsq, fit2 |-> q.fit,
     retval2 |-> q.d.retval, fault2 |-> q.d.fault]

PredictTwice(frag_vec, high_wmark, tspec, verbose, nid, verbose2, nid2) ==
    /\ \E rd \in {SteadyReads(reclaim_rate, compaction_rate)} :
       \E p \in {predict_verbose(lsq, frag_vec, high_wmark, rd, tspec,
                                 LSQ_LOOKBACK, verbose, nid)},
          q \in {predict_verbose(lsq, frag_vec, high_wmark, rd, tspec,
                                 LSQ_LOOKBACK, verbose2, nid2)} :
           /\ lsq' = p.lsq
           /\ fit' = p.fit
           /\ call' = CallRecord(frag_vec, high_wmark, rd, tspec, p)
           /\ twin' = TwinRecord(verbose, nid, verbose2, nid2, p, q)
    /\ UNCHANGED <<LSQ_LOOKBACK, supplied, reclaim_rate, compaction_rate,
                   shift>>

NextTwice ==
    \E frag_vec \in FragVecs, high_wmark \in Wmarks, tspec \in Clocks,
       s \in TwinSettings :
        PredictTwice(frag_vec, high_wmark, tspec,
                     s[1][1], s[1][2], s[2][1], s[2][2])

SpecTwice == Init /\ [][NextTwice]_vars

----------------------------------------------------------------------------
(* A single estimator driven directly: lsq_fit on lsq[0] *)

InitFit ==
    /\ LSQ_LOOKBACK \in Windows
    /\ lsq = [o \in Orders |-> lsq_empty(LSQ_LOOKBACK)]
    /\ supplied = [o \in Orders |-> << >>]
    /\ fit = [o \in Orders |-> NoFit]
    /\ reclaim_rate = 0
    /\ compaction_rate = 0
    /\ call = NoCall
    /\ shift = 0
    /\ twin = NoTwin

Observe(new_y, new_x) ==
    /\ Len(supplied[0]) < MaxObserve
    /\ \E r \in {lsq_fit(lsq[0], new_y, new_x, LSQ_LOOKBACK)} :
           /\ lsq' = [lsq EXCEPT ![0] = r.lsq]
           /\ fit' = [fit EXCEPT ![0] = Outcome(r)]
    /\ supplied' = [supplied EXCEPT ![0] = Append(@, [x |-> new_x, y |-> new_y])]
    /\ UNCHANGED <<LSQ_LOOKBACK, reclaim_rate, compaction_rate, call, shift,
                   twin>>

NextFit == \E new_y \in FitValues, new_x \in FitTimes : Observe(new_y, new_x)

SpecFit == InitFit /\ [][NextFit]_vars

----------------------------------------------------------------------------
(* Two runs of one estimator on the same observations, run 1's time        *)
(* coordinates larger by the constant shift: lsq[0] and lsq[1]             *)

InitOffset ==
    /\ LSQ_LOOKBACK \in Windows
    /\ lsq = [o \in Orders |-> lsq_empty(LSQ_LOOKBACK)]
    /\ supplied = [o \in Orders |-> << >>]
    /\ fit = [o \in Orders |-> NoFit]
    /\ reclaim_rate = 0
    /\ compaction_rate = 0
    /\ call = NoCall
    /\ shift \in Shifts
    /\ twin = NoTwin

ObservePair(new_y, new_x) ==
    /\ Len(supplied[0]) < MaxObserve
    /\ \E r0 \in {lsq_fit(lsq[0], new_y, new_x, LSQ_LOOKBACK)},
          r1 \in {lsq_fit(lsq[1], new_y, new_x + shift, LSQ_LOOKBACK)} :
           /\ lsq' = [lsq EXCEPT ![0] = r0.lsq, ![1] = r1.lsq]
           /\ fit' = [fit EXCEPT ![0] = Outcome(r0), ![1] = Outcome(r1)]
    /\ supplied' = [supplied EXCEPT
                      ![0] = Append(@, [x |-> new_x, y |-> new_y]),
                      ![1] = Append(@, [x |-> new_x + shift, y |-> new_y])]
    /\ UNCHANGED <<LSQ_LOOKBACK, reclaim_rate, compaction_rate, call, shift,
                   twin>>

NextOffset ==
    \E new_y \in FitValues, new_x \in FitTimes : ObservePair(new_y, new_x)

SpecOffset == InitOffset /\ [][NextOffset]_vars

----------------------------------------------------------------------------
(* Properties of the estimator *)

Last(s) == s[Len(s)]

\* the slot that holds the j-th oldest of the last W samples once the window
\* has wrapped, for a buffer whose cursor is at next
SlotOf(next, j, W) == (next + j) % W

\* C1: every lsq_fit call, whatever its outcome, leaves the new sample in the
\* slot it wrote and every other stored (time, value) pair as it was before
\* the call: the translation of the time axis is undone.
FrameKept(o) ==
    LET slot == lsq[o].next
        s == Last(supplied'[o])
    IN  /\ lsq'[o].x[slot] = s.x
        /\ lsq'[o].y[slot] = s.y
        /\ \A i \in 0 .. (LSQ_LOOKBACK - 1) :
              i # slot => /\ lsq'[o].x[i] = lsq[o].x[i]
                          /\ lsq'[o].y[i] = lsq[o].y[i]

C1_FitLeavesBufferIntact ==
    [][\A o \in Orders : supplied'[o] # supplied[o] => FrameKept(o)]_vars

\* C2: the buffer holds the first N < W samples supplied, in slots 0..N-1
\* and not ready, or the W most recently supplied samples in circular order
\* with the oldest at the cursor and ready.
HoldsSupplied(o) ==
    LET W == LSQ_LOOKBACK
        n == Len(supplied[o])
        l == lsq[o]
    IN  IF n < W
        THEN /\ ~l.ready
             /\ l.next = n
             /\ \A i \in 0 .. (n - 1) :
                   l.x[i] = supplied[o][i + 1].x /\ l.y[i] = supplied[o][i + 1].y
        ELSE /\ l.ready
             /\ l.next = n % W
             /\ \A j \in 0 .. (W - 1) :
                   LET s == supplied[o][n - W + 1 + j]
                       i == SlotOf(l.next, j, W)
                   IN  l.x[i] = s.x /\ l.y[i] = s.y

C2_BufferHoldsSupplied == \A o \in Orders : HoldsSupplied(o)

\* C3: the estimator is not ready (and returns no line) for the first W-1
\* observations and ready from the W-th on; ready is never reset.
C3_ReadyFromWthObservation ==
    \A o \in Orders :
        /\ lsq[o].ready <=> Len(supplied[o]) >= LSQ_LOOKBACK
        /\ ~lsq[o].ready => fit[o].ret = -1

C3_Witness ==
    /\ lsq[0].ready
    /\ Len(supplied[0]) = LSQ_LOOKBACK + 1
    /\ lsq[0].next = 1

Sample(y, x) == [x |-> x, y |-> y]

\* C9: window length 3 and samples (100,0), (90,10), (80,20): the third fit
\* returns the slope -100 (scaled by 100) and an intercept of about 100.
C9_ExampleFit ==
    (/\ LSQ_LOOKBACK = 3
     /\ supplied[0] = <<Sample(100, 0), Sample(90, 10), Sample(80, 20)>>)
    => /\ fit[0].ret = 0
       /\ fit[0].m = -100
       /\ Abs(fit[0].c - 100) <= 1

\* the slope half of the example, which the code does return
C9_ExampleSlope ==
    (/\ LSQ_LOOKBACK = 3
     /\ supplied[0] = <<Sample(100, 0), Sample(90, 10), Sample(80, 20)>>)
    => fit[0].ret = 0 /\ fit[0].m = -100 /\ fit[0].c = 1090

\* C10: the two runs produce a line on the same calls, with the same slope
\* and the same intercept.
C10_OffsetInvariance ==
    /\ fit[0].ret = fit[1].ret
    /\ fit[0].ret = 0 => fit[0].m = fit[1].m /\ fit[0].c = fit[1].c

----------------------------------------------------------------------------
(* Properties of predict *)

\* the last call was a predict call in which every order yielded a line
AllLines == call.kind = "predict" /\ call.is_ready

AllWindowsFull == \A o \in Orders : lsq[o].ready

fitted_m == [o \in Orders |-> fit[o].m]
fitted_c == [o \in Orders |-> fit[o].c]

\* the orders the scan does not skip, and the first of them it meets
Differing == {o \in HigherOrders : fit[o].m # fit[0].m}
HighestDiffering == CHOOSE o \in Differing : \A q \in Differing : q <= o

\* the order-0 branch did not return at line 213
ScanReached == AllLines /\ ~(call.returned0 /\ call.at = 0)

\* C4, as worded: with a zero compaction rate and a line for every order,
\* predict returns the empty flag set.
C4_ZeroCompactionRateReturnsEmpty ==
    (AllLines /\ compaction_rate = 0) => call.retval = {}

\* C4, as the code has it: with a zero compaction rate and a line for every order,
\* COMPACT is never set, and the flags are empty (those of the order-0 branch
\* zeroed out) whenever some order 1..MAX_ORDER-1 has a slope different from
\* order 0's.
C4_ZeroCompactionRate ==
    (AllLines /\ compaction_rate = 0)
    => /\ MEMPREDICT_COMPACT \notin call.retval
       /\ Differing # {} => call.retval = {}

C4_Witness ==
    /\ AllLines
    /\ compaction_rate = 0
    /\ Differing # {}
    /\ fit[0].m >= 0
    /\ call.retval = {}

\* C5: all windows full, order-0 slope negative, reclaim rate nonzero and
\* free pages at or below the high watermark: RECLAIM is returned.
C5_ReclaimOnBreach ==
    (/\ call.kind = "predict"
     /\ AllWindowsFull
     /\ fit[0].ret = 0
     /\ fit[0].m < 0
     /\ reclaim_rate # 0
     /\ call.free_pages <= call.high_wmark)
    => MEMPREDICT_RECLAIM \in call.retval

\* the order-0 window, oldest sample first, rises strictly in value and time
StrictlyIncreasing(o) ==
    \A j \in 0 .. (LSQ_LOOKBACK - 2) :
        LET a == SlotOf(lsq[o].next, j, LSQ_LOOKBACK)
            b == SlotOf(lsq[o].next, j + 1, LSQ_LOOKBACK)
        IN  lsq[o].y[a] < lsq[o].y[b] /\ lsq[o].x[a] < lsq[o].x[b]

\* C6: all windows full and the order-0 window strictly increasing: the
\* slope is non-negative, LOWER_WMARKS is returned and RECLAIM is not.
C6_IncreasingLowersWmarks ==
    (/\ call.kind = "predict"
     /\ AllWindowsFull
     /\ StrictlyIncreasing(0))
    => /\ fit[0].ret = 0
       /\ fit[0].m >= 0
       /\ MEMPREDICT_LOWER_WMARKS \in call.retval
       /\ MEMPREDICT_RECLAIM \notin call.retval

\* the scan met an order to judge, with a nonzero compaction rate
ScanJudged == ScanReached /\ Differing # {} /\ compaction_rate # 0

\* the current time in milliseconds
now_ms(tspec) == tspec.tv_sec * 1000 + tspec.tv_nsec \div 1000000

\* C7, as worded: for the highest order whose slope differs from order 0's,
\* x_cross negative or at most the current time in milliseconds sets COMPACT.
C7_DueCrossingCompactsInclusive ==
    ScanJudged =>
        LET xc == x_cross(fitted_m, fitted_c, HighestDiffering)
        IN  (xc < 0 \/ xc <= now_ms(call.tspec))
            => MEMPREDICT_COMPACT \in call.retval

\* C7, as the code has it: x_cross negative or strictly below
\* tv_sec * 1000 + tv_nsec / 1000 sets COMPACT.
C7_DueCrossingCompacts ==
    ScanJudged =>
        LET xc == x_cross(fitted_m, fitted_c, HighestDiffering)
        IN  (xc < 0 \/ xc < clock_value(call.tspec))
            => MEMPREDICT_COMPACT \in call.retval

C7_Witness ==
    /\ ScanJudged
    /\ x_cross(fitted_m, fitted_c, HighestDiffering) < 0
    /\ time_to_cross(x_cross(fitted_m, fitted_c, HighestDiffering), call.tspec)
         < time_to_compact(fitted_m, fitted_c, HighestDiffering, compaction_rate)
    /\ MEMPREDICT_COMPACT \in call.retval

\* C8: within one call every use of a rate sees the value the zero check saw,
\* so no call divides by a rate that passed its zero check.
C8_RateNeverZeroDivisor == ~call.fault

\* C11: a predict call in which some order's estimator is not yet ready
\* returns the empty flag set, whatever the samples, watermark and rates.
C11_NotReadyReturnsEmpty ==
    (call.kind = "predict" /\ \E o \in Orders : ~lsq[o].ready)
    => /\ ~call.is_ready
       /\ call.retval = {}
       /\ ~call.fault

C11_Witness ==
    /\ call.kind = "predict"
    /\ ~lsq[0].ready
    /\ lsq[0].next = 1
    /\ call.free_pages = 1902
    /\ call.retval = {}

\* what the order-0 branch of the last call decided
Order0Flags ==
    order0_branch(fit[0].m, call.free_pages, call.high_wmark, call.reads).retval

\* C12: an order whose slope equals order 0's never triggers COMPACT, and
\* when every order 1..MAX_ORDER-1 is parallel to order 0 predict returns
\* exactly the flags of the order-0 branch, without COMPACT, whatever the
\* compaction rate.
C12_ParallelNeverCompacts ==
    AllLines =>
        /\ MEMPREDICT_COMPACT \in call.retval => call.at \in Differing
        /\ Differing = {} =>
              /\ call.retval = Order0Flags
              /\ MEMPREDICT_COMPACT \notin call.retval

C12_Witness ==
    /\ AllLines
    /\ Differing = {}
    /\ compaction_rate # 0
    /\ fit[1].c # fit[0].c
    /\ call.retval = {MEMPREDICT_RECLAIM}

\* the window of order o is full and all its stored times are identical
DegenerateWindow(o) ==
    /\ lsq[o].ready
    /\ \A i, j \in 0 .. (LSQ_LOOKBACK - 1) : lsq[o].x[i] = lsq[o].x[j]

\* C13: a full window whose time coordinates are all identical makes lsq_fit
\* report "no line" (-1) without dividing, and the predict call that observed
\* it returns the empty flag set.
C13_DegenerateWindowNoLine ==
    \A o \in Orders :
        (call.kind = "predict" /\ DegenerateWindow(o))
        => /\ fit[o].ret = -1
           /\ ~call.is_ready
           /\ call.retval = {}
           /\ ~call.fault

C13_Witness ==
    /\ call.kind = "predict"
    /\ DegenerateWindow(0)
    /\ lsq[0].y[0] # lsq[0].y[1]
    /\ fit[0].ret = -1
    /\ call.retval = {}

\* C14: all windows full, order-0 slope negative and a zero reclaim rate:
\* predict returns the empty flag set from line 213, before the compaction
\* scan, and divides by nothing.
C14_ZeroReclaimRateReturnsEmpty ==
    (/\ AllLines
     /\ AllWindowsFull
     /\ fit[0].m < 0
     /\ reclaim_rate = 0)
    => /\ call.retval = {}
       /\ call.returned0
       /\ call.at = 0
       /\ ~call.fault

C14_Witness ==
    /\ AllLines
    /\ fit[0].m < 0
    /\ reclaim_rate = 0
    /\ compaction_rate # 0
    /\ Differing # {}
    /\ crossing_due(x_cross(fitted_m, fitted_c, HighestDiffering), call.tspec)
    /\ call.retval = {}

\* C15: no returned value has both LOWER_WMARKS and RECLAIM; LOWER_WMARKS
\* is set only with an order-0 slope >= 0 and RECLAIM only with one < 0;
\* COMPACT may accompany either.
C15_LowerWmarksExcludesReclaim ==
    call.kind = "predict" =>
        /\ ~(/\ MEMPREDICT_LOWER_WMARKS \in call.retval
             /\ MEMPREDICT_RECLAIM \in call.retval)
        /\ MEMPREDICT_LOWER_WMARKS \in call.retval
              => AllLines /\ fit[0].m >= 0
        /\ MEMPREDICT_RECLAIM \in call.retval
              => AllLines /\ fit[0].m < 0

C15_Witness ==
    /\ AllLines
    /\ fit[0].m < 0
    /\ call.retval = {MEMPREDICT_RECLAIM, MEMPREDICT_COMPACT}

Oldest(o) == SlotOf(lsq[o].next, 0, LSQ_LOOKBACK)
Second(o) == SlotOf(lsq[o].next, 1, LSQ_LOOKBACK)
RiseOf(o) == lsq[o].y[Second(o)] - lsq[o].y[Oldest(o)]
RunOf(o) == lsq[o].x[Second(o)] - lsq[o].x[Oldest(o)]

\* every sample of order o's full window lies on the straight line through
\* its two oldest samples
OnALine(o) ==
    /\ lsq[o].ready
    /\ RunOf(o) # 0
    /\ \A i \in 0 .. (LSQ_LOOKBACK - 1) :
          (lsq[o].y[i] - lsq[o].y[Oldest(o)]) * RunOf(o)
              = RiseOf(o) * (lsq[o].x[i] - lsq[o].x[Oldest(o)])

\* The lines of order 0 and order o meet at the time CrossNum(o) / CrossDen(o),
\* in the epoch of the stored sample times.
CrossDen(o) == RiseOf(0) * RunOf(o) - RiseOf(o) * RunOf(0)
CrossNum(o) ==
    (lsq[o].y[Oldest(o)] - lsq[0].y[Oldest(0)]) * RunOf(0) * RunOf(o)
    + RiseOf(0) * RunOf(o) * lsq[0].x[Oldest(0)]
    - RiseOf(o) * RunOf(0) * lsq[o].x[Oldest(o)]

\* C17: for two orders whose full windows lie exactly on two non-parallel
\* lines, the x_cross that the scan computes from the fitted pairs is, up to
\* integer rounding, the time at which the two lines intersect.
C17_CrossingIsIntersection ==
    \A o \in HigherOrders :
        (/\ ScanJudged
         /\ o = HighestDiffering
         /\ OnALine(0)
         /\ OnALine(o)
         /\ CrossDen(o) # 0)
        => Abs(x_cross(fitted_m, fitted_c, o) * CrossDen(o) - CrossNum(o))
             < Abs(CrossDen(o))

\* C18: when the crossing of the scanned order is in the future, COMPACT is
\* set for it iff time_to_cross >= time_to_compact, with time_to_cross =
\* x_cross - current_time, current_time the value of the imminence comparison,
\* and time_to_compact = (c[0] - y_cross) / compaction_rate.
C18_FutureCrossingCatchUp ==
    ScanJudged =>
        LET o == HighestDiffering
            xc == x_cross(fitted_m, fitted_c, o)
            current_time == clock_value(call.tspec)
        IN  xc > current_time =>
                ((MEMPREDICT_COMPACT \in call.retval /\ call.at = o)
                 <=> xc - current_time
                       >= time_to_compact(fitted_m, fitted_c, o,
                                          compaction_rate))

----------------------------------------------------------------------------
(* The controller fed the samples of the worked example for order 0:       *)
(* window length 3, samples (100,0), (90,10), (80,20) in any order         *)

ExampleSamples == <<Sample(100, 0), Sample(90, 10), Sample(80, 20)>>
ExampleWmarks == {50, 99}

\* the example says nothing of the higher orders: each holds one free block
ExampleVecs ==
    {[o \in Orders |->
        [free_pages |-> IF o = 0 THEN ExampleSamples[k].y ELSE 1,
         msecs |-> ExampleSamples[k].x]] :
        k \in 1 .. Len(ExampleSamples)}

InitExample ==
    /\ LSQ_LOOKBACK = Len(ExampleSamples)
    /\ lsq = [o \in Orders |-> lsq_empty(LSQ_LOOKBACK)]
    /\ supplied = [o \in Orders |-> << >>]
    /\ fit = [o \in Orders |-> NoFit]
    /\ reclaim_rate \in ReclaimRates
    /\ compaction_rate \in CompactionRates
    /\ call = NoCall
    /\ shift = 0
    /\ twin = NoTwin

NextExample ==
    \E frag_vec \in ExampleVecs, high_wmark \in ExampleWmarks,
       tspec \in Clocks :
        Predict(frag_vec, high_wmark, tspec)

SpecExample == InitExample /\ [][NextExample]_vars

\* the order-0 window holds the samples of the example, oldest first
ExampleWindow ==
    \A j \in 0 .. (LSQ_LOOKBACK - 1) :
        LET i == SlotOf(lsq[0].next, j, LSQ_LOOKBACK)
        IN  /\ lsq[0].x[i] = ExampleSamples[j + 1].x
            /\ lsq[0].y[i] = ExampleSamples[j + 1].y

\* C19: all windows full, order-0 slope negative, reclaim rate nonzero and
\* free pages above the high watermark: the order-0 branch sets RECLAIM iff
\* (free - wmark) div |slope| >= (free - wmark) div reclaim_rate, and the call
\* returns it unless line 265 returns 0; on the example (reclaim rate 2,
\* high watermark 50) RECLAIM is not set.
C19_ReclaimIffBreachBeforeCatchUp ==
    /\ (/\ AllLines
        /\ AllWindowsFull
        /\ fit[0].m < 0
        /\ reclaim_rate # 0
        /\ call.free_pages > call.high_wmark)
       => /\ MEMPREDICT_RECLAIM \in Order0Flags
               <=> TDiv(call.free_pages - call.high_wmark, Abs(fit[0].m))
                     >= TDiv(call.free_pages - call.high_wmark, reclaim_rate)
          /\ ~call.returned0
               => (MEMPREDICT_RECLAIM \in call.retval
                     <=> MEMPREDICT_RECLAIM \in Order0Flags)
    /\ (/\ AllLines
        /\ ExampleWindow
        /\ reclaim_rate = 2
        /\ call.high_wmark = 50)
       => /\ MEMPREDICT_RECLAIM \notin Order0Flags
          /\ MEMPREDICT_RECLAIM \notin call.retval

C19_Witness ==
    /\ AllLines
    /\ ExampleWindow
    /\ fit[0].m = -100
    /\ reclaim_rate = 2
    /\ call.high_wmark = 50
    /\ call.free_pages = 80
    /\ ~call.returned0
    /\ MEMPREDICT_RECLAIM \notin call.retval

\* the call fed one sample to order o: the cursor moved on by one slot and
\* no value but the one under the old cursor was written
FedOne(o) ==
    /\ lsq'[o].next = (lsq[o].next + 1) % LSQ_LOOKBACK
    /\ \A i \in 0 .. (LSQ_LOOKBACK - 1) :
          i # lsq[o].next => lsq'[o].y[i] = lsq[o].y[i]

\* C20: every predict call feeds exactly one sample to every order's
\* estimator, whatever the other orders returned and whatever the call
\* returns; so all orders keep the same write cursor, within 0..W-1, and the
\* same ready flag.
C20_EveryOrderFedOnce ==
    [][\A o \in Orders :
          /\ FedOne(o)
          /\ lsq'[o].next \in 0 .. (LSQ_LOOKBACK - 1)
          /\ lsq'[o].next = lsq'[0].next
          /\ lsq'[o].ready = lsq'[0].ready
          /\ lsq'[0].y[lsq[0].next] = call'.free_pages]_vars

C20_Witness ==
    /\ call.kind = "predict"
    /\ ~call.is_ready
    /\ DegenerateWindow(0)
    /\ lsq[MAX_ORDER - 1].ready
    /\ lsq[MAX_ORDER - 1].next = 1
    /\ lsq[0].next = 1

====
